---- MODULE Spec2Model ----
(***************************************************************************)
(* Model of auto_activity.py: one run of main() is a linear pipeline       *)
(*   validate -> calendar gate -> probability gate -> append -> git status *)
(*   -> git add -> dry-run check -> git commit -> git push                 *)
(* The script is a one-shot process; an external scheduler starts it       *)
(* again, so the log file persists from run to run.                        *)
(***************************************************************************)
EXTENDS Integers, Sequences, FiniteSets, TLC

\* ---------------------------------------------------------------- bounds
\* number of consecutive invocations of the script that are explored
MaxRuns == 2

\* ------------------------------------------------------ program constants
\* PROBABILITY = 0.7, in hundredths
PROBABILITY == 70

NOTES ==
  << "refactor notes", "small doc tweak", "daily log entry",
     "update dependencies list", "tiny formatting fix",
     "add sample output", "note about tests" >>

\* ------------------------------------------------------------ environment
\* datetime.now().weekday(): Monday=0 .. Sunday=6
Weekdays == 0 .. 6

\* samples of random.random() in [0,1), in hundredths, around PROBABILITY
RandomDraws == {0, 69, 70, 71, 99}

\* return codes a git subprocess may report
ReturnCodes == {0, 1, 128}

\* run(cmd, ...): subprocess.run either returns a CompletedProcess, modelled
\* as the one-element sequence <<returncode>>, or raises (git not
\* installed, fork failure, ...), modelled as the empty sequence.
run == {<<rc>> : rc \in ReturnCodes} \cup {<<>>}

\* what open(file_path, "a") / f.write(line) / close can do to the file:
\* the whole line is written, nothing is written (open fails), or the write
\* fails midway and leaves a fragment (no partial-write recovery)
WriteOutcomes == {"ok", "failed", "partial"}

VARIABLES
  pc,          \* position of the current run inside main()
  runs,        \* number of the current invocation (1-based); also its timestamp
  DRY_RUN,     \* configuration flag, fixed for all runs
  repoIsDir,   \* os.path.isdir(REPO_DIR) for this run
  today,       \* local weekday of this run
  r,           \* the random draw (meaningful once the gate was evaluated)
  note,        \* index in NOTES of the chosen note (0: none chosen)
  wrote,       \* outcome of the append: "none" until attempted
  file,        \* content of REPO_DIR/FILENAME: sequence of lines
  fileAtStart, \* content of the file when the current run started
  calls,       \* git commands invoked in this run, in order, with results
  exc,         \* exception in flight inside the guarded git phase
  exitCode     \* process exit status (meaningful when pc = "done")

vars == << pc, runs, DRY_RUN, repoIsDir, today, r, note, wrote, file,
           fileAtStart, calls, exc, exitCode >>

NoExc == [type |-> "none", code |-> 0]

\* sys.exit(n) raises SystemExit(n)
SystemExit(n) == [type |-> "SystemExit", code |-> n]

\* an exception derived from Exception; uncaught, the interpreter exits 1
RaisedException == [type |-> "Exception", code |-> 1]

\* line = f"{ts} - {note}\n"; ts of run k is k
Line(ts, n) == [ts |-> ts, note |-> NOTES[n], complete |-> TRUE]

Fragment(ts, n) == [ts |-> ts, note |-> NOTES[n], complete |-> FALSE]

Call(cmd, res) == [cmd |-> cmd, res |-> res]

Init ==
  /\ pc = "validate"
  /\ runs = 1
  /\ DRY_RUN \in BOOLEAN
  /\ repoIsDir \in BOOLEAN
  /\ today \in Weekdays
  /\ r = 0
  /\ note = 0
  /\ wrote = "none"
  /\ file = <<>>
  /\ fileAtStart = <<>>
  /\ calls = <<>>
  /\ exc = NoExc
  /\ exitCode = 0

\* the process ends with status n
Exit(n) ==
  /\ pc' = "done"
  /\ exitCode' = n

\* Validate without the early exit: an invalid path falls through to the gates
ValidateNoExit ==
  /\ pc = "validate"
  /\ pc' = "calendar"
  /\ UNCHANGED << runs, DRY_RUN, repoIsDir, today, r, note, wrote, file,
                  fileAtStart, calls, exc, exitCode >>

\* lines 38-40
Validate ==
  /\ pc = "validate"
  /\ IF ~repoIsDir THEN Exit(2) ELSE pc' = "calendar" /\ UNCHANGED exitCode
  /\ UNCHANGED << runs, DRY_RUN, repoIsDir, today, r, note, wrote, file,
                  fileAtStart, calls, exc >>

\* off by one: only Sunday rests
IsRestDaySundayOnly(weekday) == weekday >= 6

\* weekday >= 5
IsRestDay(weekday) == weekday >= 5

\* lines 43-46
CalendarGate ==
  /\ pc = "calendar"
  /\ IF IsRestDay(today) THEN Exit(0) ELSE pc' = "probability" /\ UNCHANGED exitCode
  /\ UNCHANGED << runs, DRY_RUN, repoIsDir, today, r, note, wrote, file,
                  fileAtStart, calls, exc >>

\* strict comparison: a draw equal to PROBABILITY proceeds
RolledStrictlyAbove(draw) == draw > PROBABILITY

\* r >= PROBABILITY
RolledAbove(draw) == draw >= PROBABILITY

\* lines 48-52
ProbabilityGate ==
  /\ pc = "probability"
  /\ \E draw \in RandomDraws :
       /\ r' = draw
       /\ IF RolledAbove(draw) THEN Exit(0) ELSE pc' = "mutate" /\ UNCHANGED exitCode
  /\ UNCHANGED << runs, DRY_RUN, repoIsDir, today, note, wrote, file,
                  fileAtStart, calls, exc >>

\* Mutate with the write error swallowed: the run goes on to git
MutateSwallowsError ==
  /\ pc = "mutate"
  /\ \E n \in 1 .. Len(NOTES), w \in WriteOutcomes :
       /\ note' = n
       /\ wrote' = w
       /\ file' = CASE w = "ok"      -> Append(file, Line(runs, n))
                    [] w = "partial" -> Append(file, Fragment(runs, n))
                    [] OTHER         -> file
       /\ pc' = "status"
  /\ UNCHANGED << runs, DRY_RUN, repoIsDir, today, r, fileAtStart, calls, exc,
                  exitCode >>

\* lines 55-66
Mutate ==
  /\ pc = "mutate"
  /\ \E n \in 1 .. Len(NOTES), w \in WriteOutcomes :
       /\ note' = n
       /\ wrote' = w
       /\ file' = CASE w = "ok"      -> Append(file, Line(runs, n))
                    [] w = "partial" -> Append(file, Fragment(runs, n))
                    [] OTHER         -> file
       /\ IF w = "ok" THEN pc' = "status" /\ UNCHANGED exitCode ELSE Exit(3)
  /\ UNCHANGED << runs, DRY_RUN, repoIsDir, today, r, fileAtStart, calls, exc >>

\* raise e inside the try block of lines 69-101
Raise(e) ==
  /\ pc' = "except"
  /\ exc' = e

\* GitStatus that skips the staging step after a successful probe
GitStatusSkipsAdd ==
  /\ pc = "status"
  /\ \E res \in run :
       /\ calls' = Append(calls, Call("status", res))
       /\ IF res = <<>> THEN Raise(RaisedException)
          ELSE IF res[1] # 0 THEN Raise(SystemExit(4))
          ELSE pc' = "dryrun" /\ UNCHANGED exc
  /\ UNCHANGED << runs, DRY_RUN, repoIsDir, today, r, note, wrote, file,
                  fileAtStart, exitCode >>

\* lines 71-74
GitStatus ==
  /\ pc = "status"
  /\ \E res \in run :
       /\ calls' = Append(calls, Call("status", res))
       /\ IF res = <<>> THEN Raise(RaisedException)
          ELSE IF res[1] # 0 THEN Raise(SystemExit(4))
          ELSE pc' = "add" /\ UNCHANGED exc
  /\ UNCHANGED << runs, DRY_RUN, repoIsDir, today, r, note, wrote, file,
                  fileAtStart, exitCode >>

\* GitAdd that ignores the return code
GitAddIgnoresCode ==
  /\ pc = "add"
  /\ \E res \in run :
       /\ calls' = Append(calls, Call("add", res))
       /\ IF res = <<>> THEN Raise(RaisedException)
          ELSE pc' = "dryrun" /\ UNCHANGED exc
  /\ UNCHANGED << runs, DRY_RUN, repoIsDir, today, r, note, wrote, file,
                  fileAtStart, exitCode >>

\* lines 77-80
GitAdd ==
  /\ pc = "add"
  /\ \E res \in run :
       /\ calls' = Append(calls, Call("add", res))
       /\ IF res = <<>> THEN Raise(RaisedException)
          ELSE IF res[1] # 0 THEN Raise(SystemExit(5))
          ELSE pc' = "dryrun" /\ UNCHANGED exc
  /\ UNCHANGED << runs, DRY_RUN, repoIsDir, today, r, note, wrote, file,
                  fileAtStart, exitCode >>

\* DryRunCheck that ignores the flag
DryRunCheckIgnoresFlag ==
  /\ pc = "dryrun"
  /\ pc' = "commit"
  /\ UNCHANGED << runs, DRY_RUN, repoIsDir, today, r, note, wrote, file,
                  fileAtStart, calls, exc, exitCode >>

\* lines 82-85
DryRunCheck ==
  /\ pc = "dryrun"
  /\ IF DRY_RUN THEN Exit(0) ELSE pc' = "commit" /\ UNCHANGED exitCode
  /\ UNCHANGED << runs, DRY_RUN, repoIsDir, today, r, note, wrote, file,
                  fileAtStart, calls, exc >>

\* GitCommit that pushes whatever commit returned
GitCommitAlwaysPushes ==
  /\ pc = "commit"
  /\ \E res \in run :
       /\ calls' = Append(calls, Call("commit", res))
       /\ IF res = <<>> THEN Raise(RaisedException) /\ UNCHANGED exitCode
          ELSE pc' = "push" /\ UNCHANGED << exc, exitCode >>
  /\ UNCHANGED << runs, DRY_RUN, repoIsDir, today, r, note, wrote, file,
                  fileAtStart >>

\* lines 87-93
GitCommit ==
  /\ pc = "commit"
  /\ \E res \in run :
       /\ calls' = Append(calls, Call("commit", res))
       /\ IF res = <<>> THEN Raise(RaisedException) /\ UNCHANGED exitCode
          ELSE IF res[1] # 0 THEN Exit(0) /\ UNCHANGED exc
          ELSE pc' = "push" /\ UNCHANGED << exc, exitCode >>
  /\ UNCHANGED << runs, DRY_RUN, repoIsDir, today, r, note, wrote, file,
                  fileAtStart >>

\* lines 96-101
GitPush ==
  /\ pc = "push"
  /\ \E res \in run :
       /\ calls' = Append(calls, Call("push", res))
       /\ IF res = <<>> THEN Raise(RaisedException) /\ UNCHANGED exitCode
          ELSE IF res[1] # 0 THEN Raise(SystemExit(6)) /\ UNCHANGED exitCode
          ELSE Exit(0) /\ UNCHANGED exc
  /\ UNCHANGED << runs, DRY_RUN, repoIsDir, today, r, note, wrote, file,
                  fileAtStart >>

\* a bare "except:" also catches SystemExit
CatchesAll(e) == TRUE

\* "except Exception": SystemExit derives from BaseException, not Exception
Catches(e) == e.type = "Exception"

\* ExceptClause that undoes the append before exiting
ExceptClauseRollsBack ==
  /\ pc = "except"
  /\ IF Catches(exc) THEN Exit(7) ELSE Exit(exc.code)
  /\ exc' = NoExc
  /\ file' = fileAtStart
  /\ UNCHANGED << runs, DRY_RUN, repoIsDir, today, r, note, wrote,
                  fileAtStart, calls >>

\* lines 103-105; what the clause does not catch ends the process with the
\* exception's own status
ExceptClause ==
  /\ pc = "except"
  /\ IF Catches(exc) THEN Exit(7) ELSE Exit(exc.code)
  /\ exc' = NoExc
  /\ file' = file
  /\ UNCHANGED << runs, DRY_RUN, repoIsDir, today, r, note, wrote,
                  fileAtStart, calls >>

\* lines 107-108: the scheduler starts the script again
NewRun ==
  /\ pc = "done"
  /\ runs < MaxRuns
  /\ runs' = runs + 1
  /\ pc' = "validate"
  /\ repoIsDir' \in BOOLEAN
  /\ today' \in Weekdays
  /\ r' = 0
  /\ note' = 0
  /\ wrote' = "none"
  /\ fileAtStart' = file
  /\ calls' = <<>>
  /\ exc' = NoExc
  /\ exitCode' = 0
  /\ UNCHANGED << DRY_RUN, file >>

Next ==
  \/ Validate
  \/ CalendarGate
  \/ ProbabilityGate
  \/ Mutate
  \/ GitStatus
  \/ GitAdd
  \/ DryRunCheck
  \/ GitCommit
  \/ GitPush
  \/ ExceptClause
  \/ NewRun

Spec == Init /\ [][Next]_vars

TypeOK ==
  /\ pc \in {"validate", "calendar", "probability", "mutate", "status", "add",
             "dryrun", "commit", "push", "except", "done"}
  /\ runs \in 1 .. MaxRuns
  /\ exitCode \in 0 .. 7

\* ------------------------------------------------------------ vocabulary
Invoked(cmd) == \E i \in 1 .. Len(calls) : calls[i].cmd = cmd

\* cmd was invoked and its process returned a code in codes
Returned(cmd, codes) ==
  \E i \in 1 .. Len(calls) :
    /\ calls[i].cmd = cmd
    /\ calls[i].res # <<>>
    /\ calls[i].res[1] \in codes

SomeCallRaised == \E i \in 1 .. Len(calls) : calls[i].res = <<>>

NonZero == ReturnCodes \ {0}

IsPrefix(s, t) == Len(s) <= Len(t) /\ \A i \in 1 .. Len(s) : s[i] = t[i]

Untouched == file = fileAtStart /\ wrote = "none"

\* the file holds exactly the content at the start of the run plus this
\* run's line
OneLineAppended == note >= 1 /\ file = Append(fileAtStart, Line(runs, note))

\* the run got past the calendar gate and the probability gate was evaluated
GateEvaluated ==
  /\ repoIsDir
  /\ today < 5
  /\ pc \notin {"validate", "calendar", "probability"}

PassedBothGates == GateEvaluated /\ r < PROBABILITY

Pipeline == << "status", "add", "commit", "push" >>

\* ------------------------------------------------------------------ C1
\* C1 as stated: in every run on a rest day (Saturday, Sunday), whatever the
\* repository path validity, the file is not mutated, no git command is
\* invoked and the exit code is 0.
C1_RestDayAlwaysExitsZero ==
  (today >= 5 /\ pc = "done") =>
     /\ Untouched
     /\ calls = <<>>
     /\ exitCode = 0

\* C1 amended: in every run on a rest day the file is not mutated and no git
\* command is invoked; the run exits 0 when the repository path is a
\* directory and 2 when it is not (validation comes before the calendar
\* gate).
C1_RestDay ==
  today >= 5 =>
     /\ Untouched
     /\ calls = <<>>
     /\ pc \in {"validate", "calendar", "done"}
     /\ pc = "done" => exitCode = (IF repoIsDir THEN 0 ELSE 2)

C1_Witness ==
  /\ today = 5
  /\ repoIsDir
  /\ DRY_RUN
  /\ pc = "done"
  /\ exitCode = 0

\* ------------------------------------------------------------------ C2
\* C2: with a valid repository on a non-rest day, a draw r >= PROBABILITY
\* (equality included) leaves the file unmutated, invokes no git command and
\* exits 0; a draw r < PROBABILITY whose write succeeds appends exactly one
\* line, whatever the git steps return; the file changes only if
\* r < PROBABILITY.
C2_ProbabilityGate ==
  GateEvaluated =>
     /\ r >= PROBABILITY =>
          /\ Untouched
          /\ calls = <<>>
          /\ pc = "done"
          /\ exitCode = 0
     /\ (r < PROBABILITY /\ wrote = "ok") =>
          /\ OneLineAppended
          /\ Len(file) = Len(fileAtStart) + 1
     /\ file # fileAtStart => r < PROBABILITY

C2_Witness ==
  /\ GateEvaluated
  /\ r = PROBABILITY - 1
  /\ wrote = "ok"
  /\ OneLineAppended
  /\ pc = "done"
  /\ exitCode = 6

\* ------------------------------------------------------------------ C3
\* C3 as stated: with DRY_RUN true, a run that passed both gates has
\* appended to the file and invoked neither commit nor push, and exits 0 if
\* status and add returned zero.
C3_DryRunAlwaysAppends ==
  (DRY_RUN /\ PassedBothGates /\ pc = "done") =>
     /\ file # fileAtStart
     /\ ~Invoked("commit")
     /\ ~Invoked("push")
     /\ (Returned("status", {0}) /\ Returned("add", {0})) => exitCode = 0

\* C3 amended: with DRY_RUN true, a run that passed both gates and whose
\* write succeeded has appended its line; in no run is commit or push
\* invoked; once status and add both returned zero the run ends with exit
\* code 0.
C3_DryRun ==
  (DRY_RUN /\ PassedBothGates) =>
     /\ wrote = "ok" => OneLineAppended
     /\ pc \notin {"mutate"} => wrote # "none"
     /\ ~Invoked("commit")
     /\ ~Invoked("push")
     /\ (Returned("status", {0}) /\ Returned("add", {0})) =>
          /\ pc \in {"dryrun", "done"}
          /\ pc = "done" => exitCode = 0

C3_Witness ==
  /\ DRY_RUN
  /\ PassedBothGates
  /\ OneLineAppended
  /\ Returned("status", {0})
  /\ Returned("add", {0})
  /\ pc = "done"
  /\ exitCode = 0

\* ------------------------------------------------------------------ C4
\* C4: when commit returns non-zero the run ends with exit code 0 and push
\* is not invoked; push is invoked only when commit returned zero and
\* DRY_RUN is false.
C4_CommitNonZero ==
  /\ Returned("commit", NonZero) =>
       /\ pc = "done"
       /\ exitCode = 0
       /\ ~Invoked("push")
  /\ Invoked("push") => (Returned("commit", {0}) /\ ~DRY_RUN)

C4_Witness ==
  /\ Returned("commit", {128})
  /\ pc = "done"
  /\ exitCode = 0
  /\ Len(calls) = 3

\* ------------------------------------------------------------------ C5
\* C5: when the repository path is not a directory the run exits 2 with the
\* file untouched and no git command invoked, whatever the weekday, the draw
\* and the dry-run flag.
C5_InvalidRepo ==
  ~repoIsDir =>
     /\ Untouched
     /\ calls = <<>>
     /\ pc \in {"validate", "done"}
     /\ pc = "done" => exitCode = 2

C5_Witness ==
  /\ ~repoIsDir
  /\ today = 0
  /\ ~DRY_RUN
  /\ pc = "done"
  /\ exitCode = 2

\* ------------------------------------------------------------------ C6
\* the exit code that the first failing stage of the run determines
ExpectedExit ==
  IF ~repoIsDir THEN 2
  ELSE IF today >= 5 THEN 0
  ELSE IF r >= PROBABILITY THEN 0
  ELSE IF wrote # "ok" THEN 3
  ELSE IF SomeCallRaised THEN 7
  ELSE IF Returned("status", NonZero) THEN 4
  ELSE IF Returned("add", NonZero) THEN 5
  ELSE IF Returned("push", NonZero) THEN 6
  ELSE 0

\* C6: the exit code is determined by the first failing stage: 2 invalid
\* path, 3 failed append, 4 status non-zero, 5 add non-zero, 6 push
\* non-zero, 7 exception while invoking a git command, 0 otherwise; 4, 5 and
\* 6 are never replaced by 7.
C6_ExitCodes ==
  pc = "done" =>
     /\ exitCode = ExpectedExit
     /\ exitCode = 7 => SomeCallRaised

C6_Witness ==
  /\ pc = "done"
  /\ exitCode = 4
  /\ Returned("status", NonZero)
  /\ ~SomeCallRaised

\* ------------------------------------------------------------------ C7
\* C7 as stated: with DRY_RUN true no git command that changes repository
\* state (add, commit, push) is invoked.
C7_DryRunInvokesNoStateChange ==
  DRY_RUN => ~(Invoked("add") \/ Invoked("commit") \/ Invoked("push"))

\* C7 amended: with DRY_RUN true the only git commands invoked are status
\* and add: commit and push are suppressed, but the file is still staged, and
\* a dry run that appended its line and ended with exit code 0 has invoked
\* add with a zero result.
C7_DryRunStillStages ==
  DRY_RUN =>
     /\ \A i \in 1 .. Len(calls) : calls[i].cmd \in {"status", "add"}
     /\ (pc = "done" /\ exitCode = 0 /\ wrote = "ok") => Returned("add", {0})

C7_Witness ==
  /\ DRY_RUN
  /\ wrote = "ok"
  /\ Len(calls) = 2
  /\ calls[2] = Call("add", <<0>>)
  /\ pc = "done"

\* ------------------------------------------------------------------ C8
\* C8: commit is invoked only after the append completed successfully in
\* the same run, never in a run that stopped at validation, at a gate or on
\* a write failure.
C8_CommitOnlyAfterAppend ==
  Invoked("commit") =>
     /\ wrote = "ok"
     /\ OneLineAppended
     /\ PassedBothGates

C8_Witness ==
  /\ Returned("commit", {0})
  /\ OneLineAppended
  /\ pc = "push"

\* ------------------------------------------------------------------ C9
\* C9: the file is append-only with no rollback: every step leaves the old
\* content as a prefix of the new content, and once a run appended its line
\* every later step of that run (failing, skipped or not) leaves the file as
\* it is, with that line last.
C9_AppendOnly ==
  [][ /\ IsPrefix(file, file')
      /\ (wrote = "ok" /\ runs' = runs) =>
           /\ file' = file
           /\ file'[Len(file')] = Line(runs, note) ]_vars

C9_Witness ==
  /\ runs = 2
  /\ Len(fileAtStart) = 1
  /\ Len(file) = 2
  /\ wrote = "ok"
  /\ pc = "done"
  /\ exitCode = 7

\* ------------------------------------------------------------------ C10
\* C10: in one run the steps happen in the order append, status, add,
\* commit, push, each at most once; a step is invoked only if every earlier
\* step was invoked and succeeded.
C10_OrderedTerminalSteps ==
  /\ Len(calls) <= Len(Pipeline)
  /\ \A i \in 1 .. Len(calls) : calls[i].cmd = Pipeline[i]
  /\ \A i \in 1 .. Len(calls) - 1 : calls[i].res = <<0>>
  /\ calls # <<>> => (wrote = "ok" /\ OneLineAppended)
  /\ Len(file) <= Len(fileAtStart) + 1
  /\ IsPrefix(fileAtStart, file)

C10_Witness ==
  /\ Len(calls) = 4
  /\ calls[4] = Call("push", <<0>>)
  /\ pc = "done"
  /\ exitCode = 0
====
